---------------------------- MODULE Spec2Model ----------------------------
(***************************************************************************)
(* A model of src/gen-complex.js (package total-serialism): the Euclidean  *)
(* rhythm generators euclid() and fastEuclid(), the n-bonacci family       *)
(* built on numBonacci() and bignumber.js, the Pisano period detector and  *)
(* the elementary cellular Automaton class.                                *)
(*                                                                         *)
(* JavaScript arrays are modelled as sequences: the JS index i is the      *)
(* sequence index i+1.                                                     *)
(***************************************************************************)
EXTENDS Integers, Sequences, FiniteSets, TLC

VARIABLES
    \* ---- euclid() / fastEuclid() ----
    args,        \* the arguments [steps, beats, rot] of the calls
    called,      \* which of the two generators have been called on args
    pattern,     \* module-level variable of gen-complex.js (line 91)
    counts,      \* module-level variable of gen-complex.js (line 91)
    remainders,  \* module-level variable of gen-complex.js (line 91)
    euclidRet,   \* what euclid(steps, beats, rot) returned
    fastRet,     \* what fastEuclid(steps, beats, rot) returned
    \* ---- the n-bonacci family and pisano() ----
    call,        \* the call made: the function's name and its arguments
    done,        \* whether the call has returned
    ret,         \* what the call returned
    \* ---- one Automaton object ----
    _length,     \* this._length
    _state,      \* this._state
    _rule,       \* this._rule
    _table,      \* this._table
    op,          \* the latest call on the object: "new", "rule", "feed", "next"
    result,      \* what the latest call on the object returned
    ruleArg      \* the argument of the latest rule assignment (new or rule())

euclidVars == <<args, called, pattern, counts, remainders, euclidRet, fastRet>>
recVars == <<call, done, ret>>
automatonVars == <<_length, _state, _rule, _table, op, result, ruleArg>>

vars == <<euclidVars, recVars, automatonVars>>

-----------------------------------------------------------------------------
(* Bounds of the model *)

MaxSteps == 16
MaxRot == 1
MaxLen == 8
MaxSeed == 2
MaxT == 3
MaxOffset == 3
MaxMod == 10
MaxCells == 4

-----------------------------------------------------------------------------
(***************************************************************************)
(* Unbounded naturals (magnitudes): little-endian sequences of limbs in    *)
(* base 2^LimbBits without a most significant zero limb; <<>> is zero.     *)
(* They carry the exact integers of bignumber.js and the significands of   *)
(* IEEE-754 doubles, both wider than the integers TLC evaluates.           *)
(***************************************************************************)

LimbBits == 24
Base == 2 ^ LimbBits

RECURSIVE Trim(_)
Trim(m) ==
    IF m = <<>> THEN <<>>
    ELSE IF m[Len(m)] = 0 THEN Trim(SubSeq(m, 1, Len(m) - 1))
    ELSE m

RECURSIVE NatToMag(_)
NatToMag(n) == IF n = 0 THEN <<>> ELSE <<n % Base>> \o NatToMag(n \div Base)

\* the value of a magnitude below 2^31
RECURSIVE MagToNat(_)
MagToNat(m) == IF m = <<>> THEN 0 ELSE Head(m) + Base * MagToNat(Tail(m))

\* a + b + c, c the carry in
RECURSIVE MagAddC(_, _, _)
MagAddC(a, b, c) ==
    IF a = <<>> /\ b = <<>> THEN (IF c = 0 THEN <<>> ELSE <<c>>)
    ELSE LET x == IF a = <<>> THEN 0 ELSE Head(a)
             y == IF b = <<>> THEN 0 ELSE Head(b)
             ta == IF a = <<>> THEN <<>> ELSE Tail(a)
             tb == IF b = <<>> THEN <<>> ELSE Tail(b)
             t == x + y + c
         IN  <<t % Base>> \o MagAddC(ta, tb, t \div Base)

MagAdd(a, b) == MagAddC(a, b, 0)

\* a - b - c for a >= b + c, c the borrow in
RECURSIVE MagSubC(_, _, _)
MagSubC(a, b, c) ==
    IF a = <<>> THEN <<>>
    ELSE LET y == IF b = <<>> THEN 0 ELSE Head(b)
             tb == IF b = <<>> THEN <<>> ELSE Tail(b)
             t == Head(a) - y - c
         IN  IF t >= 0 THEN <<t>> \o MagSubC(Tail(a), tb, 0)
             ELSE <<t + Base>> \o MagSubC(Tail(a), tb, 1)

MagSub(a, b) == Trim(MagSubC(a, b, 0))

\* a < b
RECURSIVE MagLessFrom(_, _, _)
MagLessFrom(a, b, i) ==
    IF i = 0 THEN FALSE
    ELSE IF a[i] # b[i] THEN a[i] < b[i]
    ELSE MagLessFrom(a, b, i - 1)

MagLess(a, b) ==
    IF Len(a) # Len(b) THEN Len(a) < Len(b) ELSE MagLessFrom(a, b, Len(a))

\* a * k + c for a natural k < 128
RECURSIVE MagMulC(_, _, _)
MagMulC(a, k, c) ==
    IF a = <<>> THEN NatToMag(c)
    ELSE LET t == Head(a) * k + c
         IN  <<t % Base>> \o MagMulC(Tail(a), k, t \div Base)

MagMulSmall(a, k) == Trim(MagMulC(a, k, 0))

\* quotient and remainder of a by a natural 1 <= n < 128
RECURSIVE MagDivC(_, _)
MagDivC(a, n) ==
    IF a = <<>> THEN [q |-> <<>>, r |-> 0]
    ELSE LET d == MagDivC(Tail(a), n)
             cur == Base * d.r + Head(a)
         IN  [q |-> <<cur \div n>> \o d.q, r |-> cur % n]

MagDivSmall(a, n) == LET d == MagDivC(a, n) IN [q |-> Trim(d.q), r |-> d.r]

\* the binary digits of a magnitude, least significant first, the last one 1
MagBits(m) ==
    LET all == [j \in 1..(Len(m) * LimbBits) |->
                   (m[((j - 1) \div LimbBits) + 1] \div (2 ^ ((j - 1) % LimbBits))) % 2]
        ones == {j \in 1..Len(all) : all[j] = 1}
    IN  IF ones = {} THEN <<>>
        ELSE SubSeq(all, 1, CHOOSE j \in ones : \A k \in ones : k <= j)

RECURSIVE LimbOfBits(_, _, _)
LimbOfBits(b, from, j) ==
    IF j = LimbBits \/ from + j > Len(b) THEN 0
    ELSE b[from + j] * (2 ^ j) + LimbOfBits(b, from, j + 1)

\* the magnitude of a sequence of binary digits
BitsToMag(b) ==
    Trim([i \in 1..((Len(b) + LimbBits - 1) \div LimbBits) |->
             LimbOfBits(b, (i - 1) * LimbBits + 1, 0)])

ZeroBits(k) == [i \in 1..k |-> 0]

\* m * 2^k and floor(m / 2^k)
ShiftLeft(m, k) == IF m = <<>> THEN <<>> ELSE BitsToMag(ZeroBits(k) \o MagBits(m))
ShiftRight(m, k) ==
    LET b == MagBits(m)
    IN  IF Len(b) <= k THEN <<>> ELSE BitsToMag(SubSeq(b, k + 1, Len(b)))

-----------------------------------------------------------------------------
(***************************************************************************)
(* IEEE-754 double arithmetic (JavaScript numbers), as far as the source   *)
(* uses it on values that need not be exact.  A non-negative double is     *)
(* the record [m, e] standing for m * 2^(-e), m a magnitude of at most     *)
(* DoubleBits significant bits.                                            *)
(***************************************************************************)

DoubleBits == 53

\* m rounded to DoubleBits significant bits, to nearest, ties to even;
\* sticky: the exact value lies strictly above m (used with more than
\* DoubleBits bits in m)
RoundSig(m, sticky) ==
    LET b == MagBits(m)
        k == Len(b) - DoubleBits
    IN  IF k <= 0 THEN m
        ELSE LET st == sticky \/ \E i \in 1..(k - 1) : b[i] = 1
                 up == b[k] = 1 /\ (st \/ b[k + 1] = 1)
                 top == ShiftRight(m, k)
             IN  ShiftLeft(IF up THEN MagAdd(top, <<1>>) ELSE top, k)

\* the double h / s of two integers 0 <= h, 1 <= s
DoubleDiv(h, s) ==
    LET e == DoubleBits + Len(MagBits(NatToMag(s)))
        d == MagDivSmall(ShiftLeft(NatToMag(h), e), s)
    IN  [m |-> RoundSig(d.q, d.r # 0), e |-> e]

\* the double i * x of an integer 0 <= i and a double x
DoubleMulInt(i, x) == [m |-> RoundSig(MagMulSmall(x.m, i), FALSE), e |-> x.e]

\* Math.floor(x) of a double x >= 0
MathFloor(x) == MagToNat(ShiftRight(x.m, x.e))

-----------------------------------------------------------------------------
(* Transform.rotate(a, r) of transform.js, a file outside this source: a     *)
(* cyclic permutation, the element at index j moves to (j + r) mod n, so    *)
(* that euclid's first 1 lands at index rot (specification, section 4.3).   *)

rotate(a, r) ==
    LET l == Len(a)
    IN  [i \in 1..l |-> a[(((i - 1) - r) % l) + 1]]

-----------------------------------------------------------------------------
(* fastEuclid(s, h, r), lines 65-78 *)

\* v of line 70 at the step i
fastEuclidV(i, s, h) == MathFloor(DoubleMulInt(i, DoubleDiv(h, s)))

\* arr after the for loop: at the step i, d is -1 (i = 0) or the v of step i-1
fastEuclidLoop(s, h) ==
    [j \in 1..s |->
        LET i == j - 1
            v == fastEuclidV(i, s, h)
            d == IF i = 0 THEN -1 ELSE fastEuclidV(i - 1, s, h)
        IN  IF v # d THEN 1 ELSE 0]

fastEuclid(s, h, r) ==
    LET arr == fastEuclidLoop(s, h)
    IN  IF r # 0 THEN rotate(arr, r) ELSE arr

-----------------------------------------------------------------------------
(* euclid(steps, beats, rot), lines 93-112, and build(l), lines 115-130 *)

\* the while loop of lines 101-107; c, r: counts and remainders so far
RECURSIVE euclidLadder(_, _, _, _)
euclidLadder(c, r, divisor, level) ==
    IF r[level + 1] > 1
    THEN euclidLadder(Append(c, divisor \div r[level + 1]),
                      Append(r, divisor % r[level + 1]),
                      r[level + 1], level + 1)
    ELSE [counts |-> c, remainders |-> r, divisor |-> divisor, level |-> level]

\* build(l) appending to the pattern p, with the module's counts c and
\* remainders r; buildLoop is the for loop of lines 123-125 from i on
RECURSIVE build(_, _, _, _)
RECURSIVE buildLoop(_, _, _, _, _)
buildLoop(i, level, p, c, r) ==
    IF i < c[level + 1]
    THEN buildLoop(i + 1, level, build(level - 1, p, c, r), c, r)
    ELSE p

\* build(l) without the test of line 126
buildAlwaysRemainder(l, p, c, r) ==
    IF l = -1 THEN Append(p, 0)
    ELSE IF l = -2 THEN Append(p, 1)
    ELSE build(l - 2, buildLoop(0, l, p, c, r), c, r)

build(l, p, c, r) ==
    IF l = -1 THEN Append(p, 0)
    ELSE IF l = -2 THEN Append(p, 1)
    ELSE LET q == buildLoop(0, l, p, c, r)
         IN  IF r[l + 1] # 0 THEN build(l - 2, q, c, r) ELSE q

\* Array.prototype.indexOf: the first JS index of x in a, or -1
indexOf(a, x) ==
    IF \E i \in 1..Len(a) : a[i] = x
    THEN (CHOOSE i \in 1..Len(a) : a[i] = x /\ \A j \in 1..(i - 1) : a[j] # x) - 1
    ELSE -1

\* the module variables after the call, and what it returns
euclid(steps, beats, rot) ==
    LET lad == euclidLadder(<<>>, <<beats>>, steps - beats, 0)
        c == Append(lad.counts, lad.divisor)
        p == build(lad.level, <<>>, c, lad.remainders)
    IN  [pattern |-> p, counts |-> c, remainders |-> lad.remainders,
         ret |-> rotate(p, rot - indexOf(p, 1))]

-----------------------------------------------------------------------------
(***************************************************************************)
(* JavaScript numbers holding integers, and the BigNumber objects of       *)
(* bignumber.js, are both the record [s, m]: the sign s (1 or -1) and the  *)
(* magnitude m; zero is [s |-> 1, m |-> <<>>] (-0 === 0 in JavaScript).    *)
(***************************************************************************)

Abs(n) == IF n < 0 THEN -n ELSE n
Sign(n) == IF n < 0 THEN -1 ELSE 1

\* the JavaScript number of a small integer
Num(n) == [s |-> Sign(n), m |-> NatToMag(Abs(n))]

\* Number.MAX_SAFE_INTEGER, 2^53 - 1
MaxSafeInteger == [s |-> 1, m |-> BitsToMag([i \in 1..DoubleBits |-> 1])]

\* new BigNumber(v) of a safe integer v: bignumber.js reads the decimal
\* digits of String(v), which are those of v for every safe integer
BigNumber(v) == [s |-> v.s, m |-> v.m]

\* x.times(t) for a BigNumber x and a small integer t
times(x, t) ==
    LET m == MagMulSmall(x.m, Abs(t))
    IN  [s |-> IF m = <<>> THEN 1 ELSE x.s * Sign(t), m |-> m]

\* x.plus(y)
plus(x, y) ==
    IF x.s = y.s THEN [s |-> x.s, m |-> MagAdd(x.m, y.m)]
    ELSE IF MagLess(x.m, y.m) THEN [s |-> y.s, m |-> MagSub(y.m, x.m)]
    ELSE LET m == MagSub(x.m, y.m)
         IN  [s |-> IF m = <<>> THEN 1 ELSE x.s, m |-> m]

\* x.mod(n) for a small integer n >= 1: the remainder has the sign of x
mod(x, n) ==
    LET r == MagDivSmall(x.m, n).r
    IN  [s |-> IF r = 0 THEN 1 ELSE x.s, m |-> NatToMag(r)]

\* x.toNumber(): the double nearest to x
toNumber(x) ==
    LET m == RoundSig(x.m, FALSE)
    IN  [s |-> IF m = <<>> THEN 1 ELSE x.s, m |-> m]

Max(a, b) == IF a > b THEN a ELSE b
Min(a, b) == IF a < b THEN a ELSE b

\* Array.prototype.slice(start, end)
slice(a, start, end) ==
    LET n == Len(a)
        from == IF start < 0 THEN Max(n + start, 0) ELSE Min(start, n)
        to == IF end < 0 THEN Max(n + end, 0) ELSE Min(end, n)
    IN  SubSeq(a, from + 1, to)

\* arr.map(x => x.toNumber()), line 275
mapToNumber(arr) == [i \in 1..Len(arr) |-> toNumber(arr[i])]

-----------------------------------------------------------------------------
(* numBonacci(len, s1, s2, t), lines 243-263 *)

\* the pass without line 257: n2 keeps the first start value
numBonacciStepStaleN2(st, t) ==
    LET cur == plus(times(st.n1, t), st.n2)
    IN  [i |-> st.i + 1, n1 |-> cur, n2 |-> st.n2, arr |-> Append(st.arr, cur)]

\* one pass through the for loop, lines 253-260; st.i is the loop variable
numBonacciStep(st, t) ==
    LET cur == plus(times(st.n1, t), st.n2)
    IN  [i |-> st.i + 1, n1 |-> cur, n2 |-> st.n1, arr |-> Append(st.arr, cur)]

\* the passes of the for loop from st on, while i < upto
RECURSIVE numBonacciLoop(_, _, _)
numBonacciLoop(st, t, upto) ==
    IF st.i >= upto THEN st
    ELSE IF st.i + 1 = upto THEN numBonacciStep(st, t)
    ELSE numBonacciLoop(numBonacciLoop(st, t, (st.i + upto) \div 2), t, upto)

numBonacci(len, s1, s2, t) ==
    LET n1 == BigNumber(s2)
        n2 == BigNumber(s1)
        len2 == Max(1, len - 2)
        arr == <<n2, n1>>
    IN  IF len2 < 2 THEN slice(arr, 0, len2)
        ELSE numBonacciLoop([i |-> 0, n1 |-> n1, n2 |-> n2, arr |-> arr], t, len2).arr

\* nbonacci(len, s1, s2, t), lines 274-278, with toString left false
nbonacci(len, s1, s2, t) == mapToNumber(numBonacci(len, s1, s2, t))

\* the body shared by fibonacci, pell, threeFibonacci and lucas
offsetSlice(f, len, offset) ==
    IF offset > 0 THEN slice(f, offset, offset + len) ELSE f

\* fibonacci(len, offset), lines 293-301, with toString left false
fibonacci(len, offset) ==
    offsetSlice(mapToNumber(numBonacci(len + offset, Num(0), Num(1), 1)), len, offset)

\* pell(len, offset), lines 411-419, with toString left false
pell(len, offset) ==
    offsetSlice(mapToNumber(numBonacci(len + offset, Num(0), Num(1), 2)), len, offset)

\* threeFibonacci(len, offset), lines 432-440, with toString left false
threeFibonacci(len, offset) ==
    offsetSlice(mapToNumber(numBonacci(len + offset, Num(0), Num(1), 3)), len, offset)

\* lucas(len, offset), lines 452-460, with toString left false
lucas(len, offset) ==
    offsetSlice(mapToNumber(numBonacci(len + offset, Num(2), Num(1), 1)), len, offset)

-----------------------------------------------------------------------------
(* pisano(mod, len), lines 361-368, and pisanoPeriod(mod, length), 371-399 *)

\* numBonacci(length, 0, 1, 1).map(x => x.mod(mod).toNumber())
fibonacciMod(length, modulus) ==
    LET arr == numBonacci(length, Num(0), Num(1), 1)
    IN  [i \in 1..Len(arr) |-> toNumber(mod(arr[i], modulus))]

\* one pass through the for loop, lines 376-396; st.i is the loop variable
pisanoStep(st, seq) ==
    IF st.returned THEN st
    ELSE LET p == Append(st.p, seq[st.i + 1])
             c == <<Num(0), Num(1), Num(1)>>
             equals == Cardinality({k \in 1..Len(p) : k <= Len(c) /\ p[k] = c[k]})
         IN  IF Len(p) > 2
             THEN IF equals = 3 /\ st.l > 3
                  THEN [st EXCEPT !.returned = TRUE, !.value = slice(seq, 0, st.l)]
                  ELSE [st EXCEPT !.i = st.i + 1, !.p = slice(p, 1, 3), !.l = st.l + 1]
             ELSE [st EXCEPT !.i = st.i + 1, !.p = p]

\* the passes of the for loop from st on, while i < upto and the function
\* has not returned
RECURSIVE pisanoLoop(_, _, _)
pisanoLoop(st, seq, upto) ==
    IF st.returned \/ st.i >= upto THEN st
    ELSE IF st.i + 1 = upto THEN pisanoStep(st, seq)
    ELSE pisanoLoop(pisanoLoop(st, seq, (st.i + upto) \div 2), seq, upto)

RECURSIVE pisanoPeriod(_, _)
pisanoPeriod(modulus, length) ==
    LET seq == fibonacciMod(length, modulus)
        st == pisanoLoop([i |-> 0, p |-> <<>>, l |-> 0,
                          returned |-> FALSE, value |-> <<>>], seq, Len(seq))
    IN  IF st.returned THEN st.value ELSE pisanoPeriod(modulus, length * 2)

\* the default of pisanoPeriod's parameter length
PisanoLength == 32

pisano(modulus, len) ==
    IF modulus < 2 THEN <<Num(0)>>
    ELSE IF len < 1 THEN pisanoPeriod(modulus, PisanoLength)
    ELSE fibonacciMod(len, modulus)

-----------------------------------------------------------------------------
(* One call of a generator of the n-bonacci family or of pisano() *)

Seeds == {Num(n) : n \in (-MaxSeed)..MaxSeed} \cup {MaxSafeInteger}

NbonacciCalls ==
    [fn : {"nbonacci"}, len : (-1)..MaxLen, s1 : Seeds, s2 : Seeds, t : (-MaxT)..MaxT]

OffsetCalls ==
    [fn : {"fibonacci", "pell", "threeFibonacci", "lucas"},
     len : 0..MaxLen, offset : 0..MaxOffset]

PisanoCalls == [fn : {"pisano"}, mod : 0..MaxMod, len : (-1)..MaxLen]

Return(fn, value) ==
    /\ call.fn = fn
    /\ ~done
    /\ done' = TRUE
    /\ ret' = value
    /\ UNCHANGED <<call, euclidVars, automatonVars>>

Nbonacci == Return("nbonacci", nbonacci(call.len, call.s1, call.s2, call.t))
Fibonacci == Return("fibonacci", fibonacci(call.len, call.offset))
Pell == Return("pell", pell(call.len, call.offset))
ThreeFibonacci == Return("threeFibonacci", threeFibonacci(call.len, call.offset))
Lucas == Return("lucas", lucas(call.len, call.offset))
Pisano == Return("pisano", pisano(call.mod, call.len))

-----------------------------------------------------------------------------
(* The calls of the two rhythm generators on one argument list *)

Euclid ==
    /\ "euclid" \notin called
    /\ LET e == euclid(args.steps, args.beats, args.rot)
       IN  /\ pattern' = e.pattern
           /\ counts' = e.counts
           /\ remainders' = e.remainders
           /\ euclidRet' = e.ret
    /\ called' = called \cup {"euclid"}
    /\ UNCHANGED <<args, fastRet, recVars, automatonVars>>

FastEuclid ==
    /\ "fastEuclid" \notin called
    /\ fastRet' = fastEuclid(args.steps, args.beats, args.rot)
    /\ called' = called \cup {"fastEuclid"}
    /\ UNCHANGED <<args, pattern, counts, remainders, euclidRet, recVars, automatonVars>>

-----------------------------------------------------------------------------
(***************************************************************************)
(* class Automaton, lines 482-564.  A cell or a table entry is 0, 1, or    *)
(* one of the two JavaScript values below; a string is a sequence of       *)
(* one-character strings where the code indexes it, and a TLA+ string      *)
(* where it is a key of the table.                                         *)
(***************************************************************************)

\* Number(c) of a character that is no digit (line 560)
NaN == -1
\* the value of a property or element that is not there (line 547)
undefined == -2

\* n.toString(2) of an integer n
RECURSIVE toString2(_)
toString2(n) ==
    IF n < 0 THEN <<"-">> \o toString2(-n)
    ELSE IF n < 2 THEN <<IF n = 0 THEN "0" ELSE "1">>
    ELSE toString2(n \div 2) \o <<IF n % 2 = 0 THEN "0" ELSE "1">>

\* str.padStart(n, c)
padStart(str, n, c) ==
    IF Len(str) >= n THEN str ELSE [i \in 1..(n - Len(str)) |-> c] \o str

\* Number(c) of what indexing a string gives: a character or undefined
Number(c) == IF c = "0" THEN 0 ELSE IF c = "1" THEN 1 ELSE NaN

\* String(v) of a cell as Array.prototype.join writes it
joined(v) ==
    IF v = 0 THEN "0" ELSE IF v = 1 THEN "1" ELSE IF v = NaN THEN "NaN" ELSE ""

\* the characters of a string as one TLA+ string
RECURSIVE concat(_)
concat(str) == IF str = <<>> THEN "" ELSE Head(str) \o concat(Tail(str))

\* ruleToBinary(r), lines 552-555
ruleToBinary(r) == padStart(toString2(r), 8, "0")

\* the key written at each pass i of the loop of binaryToTable (line 560)
tableKey == [i \in 0..7 |-> concat(padStart(toString2(7 - i), 3, "0"))]

\* binaryToTable(r), lines 556-563; r is a string or an array of characters
binaryToTable(r) ==
    [k \in {tableKey[i] : i \in 0..7} |->
        LET i == CHOOSE i \in 0..7 : tableKey[i] = k
        IN  IF i + 1 <= Len(r) THEN Number(r[i + 1]) ELSE NaN]

\* new Automaton(l, r), lines 483-492
constructor(l, r) ==
    LET len == Max(3, l)
        rl == ruleToBinary(r)
    IN  [_length |-> len,
         _state |-> [i \in 1..len |-> 0],
         _rule |-> [type |-> "array", val |-> rl],
         _table |-> binaryToTable(rl)]

\* rule(a) without the padStart of line 508
ruleNoPadding(a, this) ==
    IF a.kind = "array"
    THEN LET r == [i \in 1..Len(slice(a.val, 0, 8)) |-> joined(a.val[i])]
         IN  [_rule |-> this._rule, _table |-> binaryToTable(r)]
    ELSE IF a.kind = "object"
    THEN [_rule |-> [type |-> "undefined"], _table |-> a.val]
    ELSE [_rule |-> [type |-> "number", val |-> a.val],
          _table |-> binaryToTable(ruleToBinary(a.val))]

\* rule(a), lines 501-528; a is [kind, val], kind one of "array", "object",
\* "number"; the fields _rule and _table after the call
rule(a, this) ==
    IF a.kind = "array"
    THEN LET r == padStart([i \in 1..Len(slice(a.val, 0, 8)) |-> joined(a.val[i])], 8, "0")
         IN  [_rule |-> this._rule, _table |-> binaryToTable(r)]
    ELSE IF a.kind = "object"
    THEN [_rule |-> [type |-> "undefined"], _table |-> a.val]
    ELSE [_rule |-> [type |-> "number", val |-> a.val],
          _table |-> binaryToTable(ruleToBinary(a.val))]

\* feed(a) without line 535
feedKeepsLength(a, this) ==
    IF a.kind # "array" \/ Len(a.val) < 3
    THEN [_state |-> this._state, _length |-> this._length]
    ELSE [_state |-> a.val, _length |-> this._length]

\* feed(a), lines 529-537; a is [kind, val]; the fields _state and _length
\* after the call
feed(a, this) ==
    IF a.kind # "array" \/ Len(a.val) < 3
    THEN [_state |-> this._state, _length |-> this._length]
    ELSE [_state |-> a.val, _length |-> Len(a.val)]

\* a[i] of a JavaScript array
at(a, i) == IF i + 1 \in DOMAIN a THEN a[i + 1] ELSE undefined

\* next() with the neighbours' indices not wrapped around
nextNoWrap(this) ==
    LET l == this._length
    IN  [j \in 1..l |->
            LET i == j - 1
                left == at(this._state, i - 1)
                right == at(this._state, i + 1)
                key == joined(left) \o joined(at(this._state, i)) \o joined(right)
            IN  IF key \in DOMAIN this._table THEN this._table[key] ELSE undefined]

\* next(), lines 538-551: the array n; in JavaScript i-1 % l is i - (1 % l)
next(this) ==
    LET l == this._length
    IN  [j \in 1..l |->
            LET i == j - 1
                left == at(this._state, ((i - (1 % l)) + l) % l)
                right == at(this._state, ((i + (1 % l)) + l) % l)
                key == joined(left) \o joined(at(this._state, i)) \o joined(right)
            IN  IF key \in DOMAIN this._table THEN this._table[key] ELSE undefined]

-----------------------------------------------------------------------------
(* The calls on one Automaton object *)

this == [_length |-> _length, _state |-> _state, _rule |-> _rule, _table |-> _table]

\* the rule of an elementary automaton as the mapping of its neighbourhoods
Keys == {"000", "001", "010", "011", "100", "101", "110", "111"}
KeyValue(k) ==
    CHOOSE n \in 0..7 : k = concat(<<joined((n \div 4) % 2), joined((n \div 2) % 2), joined(n % 2)>>)
Wolfram(n) == [k \in Keys |-> (n \div (2 ^ KeyValue(k))) % 2]
Restrict(f, S) == [k \in S |-> f[k]]

\* the arguments the calls are made with
RuleNumbers == {30, 110, 255}
NumberArgs == [kind : {"number"}, val : RuleNumbers \cup {-1, 256}]
BitArrays(lo, hi) == UNION {[1..n -> {0, 1}] : n \in lo..hi}
ArrayArgs ==
    [kind : {"array"},
     val : {<<>>, <<1>>, <<0, 1, 1, 0, 1, 1, 1, 0>>, <<0, 1, 0, 1, 1, 0, 1, 0, 1>>}]
ObjectArgs ==
    [kind : {"object"},
     val : {Wolfram(90), Restrict(Wolfram(90), Keys \ {"111"}), Restrict(Wolfram(90), {})}]
RuleArgs == NumberArgs \cup ArrayArgs \cup ObjectArgs
FeedArgs == [kind : {"array"}, val : BitArrays(0, MaxCells)] \cup [kind : {"number"}, val : {1}]

CallRule(a) ==
    /\ LET after == rule(a, this)
       IN  /\ _rule' = after._rule
           /\ _table' = after._table
    /\ op' = "rule"
    /\ result' = [type |-> "undefined"]
    /\ ruleArg' = a
    /\ UNCHANGED <<_length, _state, euclidVars, recVars>>

CallFeed(a) ==
    /\ LET after == feed(a, this)
       IN  /\ _state' = after._state
           /\ _length' = after._length
    /\ op' = "feed"
    /\ result' = [type |-> "undefined"]
    /\ UNCHANGED <<_rule, _table, ruleArg, euclidVars, recVars>>

CallNext ==
    /\ _state' = next(this)
    /\ op' = "next"
    /\ result' = [type |-> "array", val |-> _state']
    /\ UNCHANGED <<_length, _rule, _table, ruleArg, euclidVars, recVars>>

Rule == \E a \in RuleArgs : CallRule(a)
Feed == \E a \in FeedArgs : CallFeed(a)
Next == CallNext

-----------------------------------------------------------------------------
(* The specifications: one per component, the other components idle *)

EuclidIdle ==
    /\ args = [steps |-> 1, beats |-> 0, rot |-> 0]
    /\ called = {}
    /\ pattern = <<>>
    /\ counts = <<>>
    /\ remainders = <<>>
    /\ euclidRet = <<>>
    /\ fastRet = <<>>

RecIdle ==
    /\ call = [fn |-> "none"]
    /\ done = FALSE
    /\ ret = <<>>

AutomatonIdle ==
    /\ _length = 0
    /\ _state = <<>>
    /\ _rule = [type |-> "undefined"]
    /\ _table = <<>>
    /\ op = "none"
    /\ result = [type |-> "undefined"]
    /\ ruleArg = [kind |-> "none"]

EuclidInit ==
    /\ args \in [steps : 1..MaxSteps, beats : 0..MaxSteps, rot : 0..MaxRot]
    /\ args.beats <= args.steps
    /\ called = {}
    /\ pattern = <<>>
    /\ counts = <<>>
    /\ remainders = <<>>
    /\ euclidRet = <<>>
    /\ fastRet = <<>>
    /\ RecIdle
    /\ AutomatonIdle

EuclidNext == Euclid \/ FastEuclid

EuclidSpec == EuclidInit /\ [][EuclidNext]_vars

RecInit ==
    /\ call \in NbonacciCalls \cup OffsetCalls \cup PisanoCalls
    /\ done = FALSE
    /\ ret = <<>>
    /\ EuclidIdle
    /\ AutomatonIdle

RecNext == Nbonacci \/ Fibonacci \/ Pell \/ ThreeFibonacci \/ Lucas \/ Pisano

RecSpec == RecInit /\ [][RecNext]_vars

AutomatonInit ==
    /\ \E l \in 0..MaxCells, r \in RuleNumbers :
          LET new == constructor(l, r)
          IN  /\ _length = new._length
              /\ _state = new._state
              /\ _rule = new._rule
              /\ _table = new._table
              /\ ruleArg = [kind |-> "number", val |-> r]
    /\ op = "new"
    /\ result = [type |-> "undefined"]
    /\ EuclidIdle
    /\ RecIdle

AutomatonNext == Rule \/ Feed \/ Next

AutomatonSpec == AutomatonInit /\ [][AutomatonNext]_vars

-----------------------------------------------------------------------------
(* The claims about euclid() and fastEuclid(), under EuclidSpec *)

Ones(a) == Cardinality({i \in 1..Len(a) : a[i] = 1})
Zeroes(a) == Cardinality({i \in 1..Len(a) : a[i] = 0})

\* C1: for steps >= 1 and 0 <= beats <= steps, euclid(steps, beats, 0) has
\* exactly steps elements, beats of them 1 and steps - beats of them 0.
C1_EuclidCounts ==
    ("euclid" \in called /\ args.rot = 0) =>
        /\ Len(euclidRet) = args.steps
        /\ Ones(euclidRet) = args.beats
        /\ Zeroes(euclidRet) = args.steps - args.beats

\* euclid(8, 4, 0) has returned [1,0,1,0,1,0,1,0]
C1_Witness ==
    /\ "euclid" \in called
    /\ args = [steps |-> 8, beats |-> 4, rot |-> 0]
    /\ euclidRet = <<1, 0, 1, 0, 1, 0, 1, 0>>

\* C8: for 1 <= steps < 44 and 0 <= beats <= steps, fastEuclid(steps, beats, 0)
\* and euclid(steps, beats, 0) return the same sequence.
C8_FastEqualsEuclid ==
    (called = {"euclid", "fastEuclid"} /\ args.rot = 0 /\ args.steps < 44) =>
        fastRet = euclidRet

\* euclid(5, 2, 0) has returned [1,0,1,0,0] and fastEuclid(5, 2, 0) [1,0,0,1,0]
C8_Witness ==
    /\ called = {"euclid", "fastEuclid"}
    /\ args = [steps |-> 5, beats |-> 2, rot |-> 0]
    /\ euclidRet = <<1, 0, 1, 0, 0>>
    /\ fastRet = <<1, 0, 0, 1, 0>>

\* C9: for steps >= 1 and 0 <= beats <= steps, fastEuclid(steps, beats, 0) has
\* exactly steps elements over {0,1}, beats of them 1, and after the first
\* step holds a 1 exactly where floor(i*beats/steps) differs from its value
\* at the step before.
C9_FastCounts ==
    ("fastEuclid" \in called /\ args.rot = 0) =>
        /\ Len(fastRet) = args.steps
        /\ \A j \in 1..Len(fastRet) : fastRet[j] \in {0, 1}
        /\ Ones(fastRet) = args.beats
        /\ \A i \in 1..(args.steps - 1) :
              (fastRet[i + 1] = 1) <=>
                  ((i * args.beats) \div args.steps # ((i - 1) * args.beats) \div args.steps)

\* fastEuclid(4, 0, 0) has returned [1,0,0,0]
C9_Witness ==
    /\ "fastEuclid" \in called
    /\ args = [steps |-> 4, beats |-> 0, rot |-> 0]
    /\ fastRet = <<1, 0, 0, 0>>

-----------------------------------------------------------------------------
(* The claims about the n-bonacci family and pisano(), under RecSpec *)

\* the integer a JavaScript number below 2^31 holds
NumToInt(v) == v.s * MagToNat(v.m)
Ints(a) == [i \in 1..Len(a) |-> NumToInt(a[i])]

\* 2^53, the magnitude up to which every integer is a double
TwoToDoubleBits == BitsToMag(ZeroBits(DoubleBits) \o <<1>>)

\* <<F(n) mod m, F(n+1) mod m>> of the Fibonacci numbers F
RECURSIVE FibPairMod(_, _)
FibPairMod(n, m) ==
    IF n = 0 THEN <<0, 1 % m>>
    ELSE LET q == FibPairMod(n - 1, m) IN <<q[2], (q[1] + q[2]) % m>>

\* the Pisano period of m >= 2: the least k >= 1 with F(k) = 0, F(k+1) = 1 mod m
PisanoPeriodOf(m) ==
    CHOOSE k \in 1..(6 * m) :
        /\ FibPairMod(k, m) = <<0, 1>>
        /\ \A j \in 1..(k - 1) : FibPairMod(j, m) # <<0, 1>>

\* C2: for a modulus m >= 2, pisano(m) without a length returns the first p
\* terms of the Fibonacci numbers mod m, p the Pisano period of m.
C2_PisanoMinimalPeriod ==
    (done /\ call.fn = "pisano" /\ call.mod >= 2 /\ call.len = -1) =>
        Ints(ret) = [i \in 1..PisanoPeriodOf(call.mod) |-> FibPairMod(i - 1, call.mod)[1]]

\* pisano(2) has returned [0,1,1,0,1,1]
C2_Witness ==
    /\ done
    /\ call = [fn |-> "pisano", mod |-> 2, len |-> -1]
    /\ Ints(ret) = <<0, 1, 1, 0, 1, 1>>

\* C3: nbonacci(L, s1, s2, t) returns exactly max(L, 1) elements, and
\* pisano(m, L) with m >= 2 and L >= 1 returns exactly L elements.
C3_RequestedLength ==
    done =>
        /\ call.fn = "nbonacci" => Len(ret) = Max(call.len, 1)
        /\ (call.fn = "pisano" /\ call.mod >= 2 /\ call.len >= 1) => Len(ret) = call.len

\* nbonacci(3, 0, 1, 1) has returned [0]
C3_Witness ==
    /\ done
    /\ call = [fn |-> "nbonacci", len |-> 3, s1 |-> Num(0), s2 |-> Num(1), t |-> 1]
    /\ Ints(ret) = <<0>>

\* the term number n of the recurrence a(0) = s1, a(1) = s2,
\* a(n) = t * a(n-1) + a(n-2), in the integers of the model
RECURSIVE TermInt(_, _, _, _)
TermInt(n, s1, s2, t) ==
    IF n = 0 THEN s1
    ELSE IF n = 1 THEN s2
    ELSE t * TermInt(n - 1, s1, s2, t) + TermInt(n - 2, s1, s2, t)

FamilyTerm(fn, n) ==
    IF fn = "fibonacci" THEN TermInt(n, 0, 1, 1)
    ELSE IF fn = "pell" THEN TermInt(n, 0, 1, 2)
    ELSE IF fn = "threeFibonacci" THEN TermInt(n, 0, 1, 3)
    ELSE TermInt(n, 2, 1, 1)

\* C4: for len >= 1 and offset >= 0, fibonacci, pell, threeFibonacci and lucas
\* return exactly len terms, the i-th being term number offset + i of the
\* recurrence of the family.
C4_OffsetWindow ==
    (done /\ call.fn \in {"fibonacci", "pell", "threeFibonacci", "lucas"} /\ call.len >= 1) =>
        /\ Len(ret) = call.len
        /\ \A i \in 0..(call.len - 1) :
              NumToInt(ret[i + 1]) = FamilyTerm(call.fn, call.offset + i)

\* fibonacci(2, 1) has returned an empty sequence
C4_Witness ==
    /\ done
    /\ call = [fn |-> "fibonacci", len |-> 2, offset |-> 1]
    /\ ret = <<>>

\* C5: every sequence nbonacci(L, s1, s2, t) returns is a prefix of the exact
\* sequence a(0) = s1, a(1) = s2, a(n) = t * a(n-1) + a(n-2): from index 2 on
\* each element is t times the one before plus the one before that.
C5_ExactRecurrence ==
    (done /\ call.fn = "nbonacci") =>
        /\ ret[1] = call.s1
        /\ Len(ret) >= 2 => ret[2] = call.s2
        /\ \A i \in 3..Len(ret) : ret[i] = plus(times(ret[i - 1], call.t), ret[i - 2])

\* the exact term number n of the recurrence of the call
RECURSIVE ExactTerm(_)
ExactTerm(n) ==
    IF n = 0 THEN call.s1
    ELSE IF n = 1 THEN call.s2
    ELSE plus(times(ExactTerm(n - 1), call.t), ExactTerm(n - 2))

\* C5 as amended: the element at index i of what nbonacci returns is the
\* exact term number i whenever that term's magnitude is at most 2^53.
C5_ExactWithinDoubleRange ==
    (done /\ call.fn = "nbonacci") =>
        \A i \in 1..Len(ret) :
            ~MagLess(TwoToDoubleBits, ExactTerm(i - 1).m) => ret[i] = ExactTerm(i - 1)

\* nbonacci(6, 0, 1, 2) has returned [0,1,2,5,12,29]
C5_Witness ==
    /\ done
    /\ call = [fn |-> "nbonacci", len |-> 6, s1 |-> Num(0), s2 |-> Num(1), t |-> 2]
    /\ Ints(ret) = <<0, 1, 2, 5, 12, 29>>

-----------------------------------------------------------------------------
(* The claims about the Automaton, under AutomatonSpec *)

IsBits(a) == \A i \in 1..Len(a) : a[i] \in {0, 1}

\* the bit number k of n
BitOf(n, k) == (n \div (2 ^ k)) % 2

\* C6: with the rule set from a number N in 0..255 and a state of L >= 3
\* bits, next() stores and returns the cells
\* bit (4 * old[(i-1) mod L] + 2 * old[i] + old[(i+1) mod L]) of N.
C6_NextFromRuleNumber ==
    [][(/\ CallNext
        /\ ruleArg.kind = "number"
        /\ ruleArg.val \in 0..255
        /\ _length >= 3
        /\ Len(_state) = _length
        /\ IsBits(_state))
       => /\ result' = [type |-> "array", val |-> _state']
          /\ Len(_state') = _length
          /\ \A i \in 0..(_length - 1) :
                _state'[i + 1] =
                    BitOf(ruleArg.val, 4 * _state[((i - 1) % _length) + 1]
                                       + 2 * _state[i + 1]
                                       + _state[((i + 1) % _length) + 1])]_vars

\* next() under rule 110 has just turned [0,0,0,1] into [0,0,1,1]
C6_Witness ==
    /\ op = "next"
    /\ ruleArg.kind = "number"
    /\ ruleArg.val = 110
    /\ result.val = <<0, 0, 1, 1>>
    /\ _state = <<0, 0, 1, 1>>

TableValid ==
    /\ DOMAIN _table = Keys
    /\ \A k \in Keys : _table[k] \in {0, 1}

WellFormedRule(a) ==
    IF a.kind = "number" THEN a.val >= 0
    ELSE IF a.kind = "array" THEN IsBits(a.val)
    ELSE DOMAIN a.val = Keys /\ \A k \in Keys : a.val[k] \in {0, 1}

C10_Feed ==
    /\ [][\A a \in FeedArgs :
            (op' = "feed" /\ CallFeed(a)) =>
                /\ _table' = _table
                /\ IF a.kind = "array" /\ Len(a.val) >= 3
                   THEN _state' = a.val /\ _length' = Len(a.val)
                   ELSE _state' = _state /\ _length' = _length]_vars
    /\ [][CallNext => Len(result'.val) = Len(_state)]_vars

\* feed([1,0,1,1]) has just set the state and the length
C10_Witness ==
    /\ op = "feed"
    /\ _state = <<1, 0, 1, 1>>
    /\ _length = 4

====
